---- MODULE Spec2Model ----
(***************************************************************************)
(* Scoped resource acquisition of aiopg (aiopg/utils.py): the context      *)
(* managers _ContextManager, _PoolContextManager,                          *)
(* _TransactionContextManager, _PoolAcquireContextManager,                 *)
(* _PoolConnectionContextManager and _PoolCursorContextManager.            *)
(*                                                                         *)
(* One scope instance is driven by one caller.  A method that contains     *)
(* `yield from` runs as a sequence of steps: the step that starts the      *)
(* method runs the code up to its first suspension point, and one step per *)
(* suspension point resumes it with the collaborator's outcome ("ok", the  *)
(* collaborator raising, or the task being cancelled there).               *)
(***************************************************************************)
EXTENDS Naturals, Sequences, FiniteSets

\* Number of method invocations made on the scope instance.
MaxOps == 3

\* Tasks that share one pool, and connections the pool holds (its capacity).
NTasks == 3
NConns == 2

None == "None"

\* The scope classes of utils.py.
CM   == "_ContextManager"
PCM  == "_PoolContextManager"
TCM  == "_TransactionContextManager"
PACM == "_PoolAcquireContextManager"
PCCM == "_PoolConnectionContextManager"
CUR  == "_PoolCursorContextManager"

\* Classes that inherit _ContextManager.__init__(coro) and its _obj field.
CoroClasses == {CM, PCM, TCM, PACM}
\* Classes whose __aenter__/__await__/__iter__ is _ContextManager's own.
ObjClasses == {CM, PCM, TCM}
Classes == CoroClasses \cup {PCCM, CUR}

\* What the acquisition coroutine of a scope of class c produces.
Resource(c) ==
  CASE c = CM   -> "resource"
    [] c = PCM  -> "pool"
    [] c = TCM  -> "tx"
    [] c = PACM -> "conn"
    [] c = PCCM -> "conn"
    [] c = CUR  -> "conn_cur"

VARIABLES
  cls,        \* class of the scope instance
  coroKind,   \* "generator" (asyncio.coroutine generator) or "native" (async def)
  self,       \* the instance's fields _obj, _conn, _cur, _pool
  coro,       \* the acquisition coroutine (_coro / _conn_cur_co): fresh, running, done
  is_active,  \* Transaction.is_active of the transaction the scope refers to
  pc,         \* "idle", or the collaborator call the running method is suspended on
  frame,      \* the running (or last) method: name, exc_type, pending exception, ...
  calls,      \* every collaborator call made so far, in order
  result,     \* how the last method ended
  hist,       \* the completed method invocations, in order
  warned,     \* number of DeprecationWarnings emitted
  \* Several tasks sharing one pool, each with its own checkout scope:
  tcls,       \* class of each task's scope
  tself,      \* fields of each task's scope
  tpc,        \* where each task is: start, acquire, block, release, done
  free        \* the pool's free connections

svars == <<cls, coroKind, self, coro, is_active, pc, frame, calls, result, hist, warned>>
pvars == <<tcls, tself, tpc, free>>
vars == <<svars, pvars>>

----------------------------------------------------------------------------
\* Exceptions: the type, and the collaborator call that raised it.
NoExc == [type |-> None, from |-> None]
Exc(t, w) == [type |-> t, from |-> w]
AssertionError == Exc("AssertionError", "scope")
AttributeError == Exc("AttributeError", "scope")
TypeError      == Exc("TypeError", "scope")
RuntimeError   == Exc("RuntimeError", "coroutine")

\* Outcomes of a collaborator call that suspends, and of one that does not.
AsyncOutcomes == {"ok", "error", "cancel"}
SyncOutcomes  == {"ok", "error"}

\* The exception a collaborator call `what` ends with under outcome o.
Raised(what, o) ==
  IF o = "cancel" THEN Exc("CancelledError", what) ELSE Exc("Error", what)

Running == [kind |-> "running", val |-> None, exc |-> NoExc, ctx |-> NoExc]
Returned(v) == [kind |-> "return", val |-> v, exc |-> NoExc, ctx |-> NoExc]
\* e propagates; c is the exception that was being handled when e was raised
\* (Python's implicit __context__ chaining).
RaisedWith(e, c) == [kind |-> "raise", val |-> None, exc |-> e, ctx |-> c]
Raises(e) == RaisedWith(e, NoExc)

\* `yield from` of the acquisition coroutine: a fresh coroutine starts its
\* body; an exhausted generator ends at once with StopIteration (value None);
\* an already awaited native coroutine raises RuntimeError.
CoroResume(c, kind) ==
  CASE c = "fresh" -> "start"
    [] c = "done" /\ kind = "generator" -> "none"
    [] c = "done" /\ kind = "native" -> "RuntimeError"

\* A method starts: its activation record.
Begin(m, e) ==
  [m |-> m, exc |-> e, pending |-> NoExc, start |-> Len(calls), pre |-> self,
   active |-> is_active, fin |-> NoExc]

CanCall == pc = "idle" /\ Len(hist) < MaxOps

\* The running method ends with res, leaving the fields s.
Done(f, res, s) ==
  /\ pc' = "idle"
  /\ frame' = f
  /\ result' = res
  /\ self' = s
  /\ hist' = Append(hist, [m |-> f.m, sig |-> f.exc, res |-> res])
  /\ UNCHANGED pvars

\* The running method suspends on collaborator call `label`.
Suspend(f, label, s) ==
  /\ pc' = label
  /\ frame' = f
  /\ result' = Running
  /\ self' = s
  /\ hist' = hist
  /\ UNCHANGED pvars

Call(op, arg) == calls' = Append(calls, <<op, arg>>)

----------------------------------------------------------------------------
\* __init__ of each class.  _PoolConnectionContextManager(pool, conn) is built
\* either around a connection the caller acquired beforehand (logged as the
\* caller's acquire) or with conn = None.
Fields(o, c, k, p) == [_obj |-> o, _conn |-> c, _cur |-> k, _pool |-> p]

Init ==
  /\ cls \in Classes
  /\ coroKind \in (IF cls = PCCM THEN {"generator"} ELSE {"generator", "native"})
  /\ \/ /\ cls \in ObjClasses
        /\ self = Fields(None, None, None, None)
        /\ calls = << >>
     \/ /\ cls \in {PACM, CUR}
        /\ self = Fields(None, None, None, "pool")
        /\ calls = << >>
     \/ /\ cls = PCCM
        /\ \/ self = Fields(None, None, None, "pool") /\ calls = << >>
           \/ self = Fields(None, "conn", None, "pool")
              /\ calls = << <<"acquire", "caller">> >>
  /\ coro = "fresh"
  /\ is_active = FALSE
  /\ pc = "idle"
  /\ frame = Begin("__init__", FALSE)
  /\ result = Returned(None)
  /\ hist = << >>
  /\ tcls = << >> /\ tself = << >> /\ tpc = << >> /\ free = {}
  /\ warned = 0

----------------------------------------------------------------------------
(* _ContextManager: __iter__, __await__, __aenter__, __aexit__ *)

\* Calls(q): the running step makes the collaborator calls q, in order.
Calls(q) == calls' = calls \o q

\* _ContextManager.__iter__ / __await__ (m names which): `resp = yield from
\* self._coro`, up to the coroutine's first suspension.
ContextManager_await(m) ==
  /\ CanCall /\ cls \in CoroClasses
  /\ LET f == Begin(m, FALSE)
         r == CoroResume(coro, coroKind)
     IN CASE r = "start" ->
               /\ coro' = "running"
               /\ Call("acquire", "_coro")
               /\ Suspend(f, "acquire", self)
          [] r = "none" ->
               /\ Done(f, Returned(None), self)
               /\ UNCHANGED <<coro, calls>>
          [] r = "RuntimeError" ->
               /\ Done(f, Raises(RuntimeError), self)
               /\ UNCHANGED <<coro, calls>>
  /\ UNCHANGED <<cls, coroKind, is_active, warned>>

\* Mutant: the eager trigger stores the resource in _obj before returning it.
ContextManager_await_resume_stores(o) ==
  /\ pc = "acquire" /\ cls \in CoroClasses
  /\ frame.m \in {"__iter__", "__await__"}
  /\ coro' = "done"
  /\ IF o = "ok"
       THEN Done(frame, Returned(Resource(cls)), [self EXCEPT !._obj = Resource(cls)])
       ELSE Done(frame, Raises(Raised("acquire", o)), self)
  /\ is_active' = IF o = "ok" /\ cls = TCM THEN TRUE ELSE is_active
  /\ UNCHANGED <<cls, coroKind, calls, warned>>

\* ... the coroutine ends with outcome o: `return resp`.
ContextManager_await_resume(o) ==
  /\ pc = "acquire" /\ cls \in CoroClasses
  /\ frame.m \in {"__iter__", "__await__"}
  /\ coro' = "done"
  /\ IF o = "ok"
       THEN Done(frame, Returned(Resource(cls)), self)
       ELSE Done(frame, Raises(Raised("acquire", o)), self)
  /\ is_active' = IF o = "ok" /\ cls = TCM THEN TRUE ELSE is_active
  /\ UNCHANGED <<cls, coroKind, calls, warned>>

\* __aenter__ of _ContextManager (h = "_obj") and _PoolAcquireContextManager
\* (h = "_conn"): `self.<h> = yield from self._coro`, up to the first suspension.
Coro_aenter(h) ==
  /\ CanCall
  /\ LET f == Begin("__aenter__", FALSE)
         r == CoroResume(coro, coroKind)
     IN CASE r = "start" ->
               /\ coro' = "running"
               /\ Call("acquire", "_coro")
               /\ Suspend(f, "acquire", self)
          [] r = "none" ->
               /\ Done(f, Returned(None), [self EXCEPT ![h] = None])
               /\ UNCHANGED <<coro, calls>>
          [] r = "RuntimeError" ->
               /\ Done(f, Raises(RuntimeError), self)
               /\ UNCHANGED <<coro, calls>>
  /\ UNCHANGED <<cls, coroKind, is_active, warned>>

\* ... the coroutine ends with outcome o: store and `return self.<h>`.
Coro_aenter_resume(h, o) ==
  /\ pc = "acquire" /\ frame.m = "__aenter__"
  /\ coro' = "done"
  /\ IF o = "ok"
       THEN Done(frame, Returned(Resource(cls)), [self EXCEPT ![h] = Resource(cls)])
       ELSE Done(frame, Raises(Raised("acquire", o)), self)
  /\ is_active' = IF o = "ok" /\ cls = TCM THEN TRUE ELSE is_active
  /\ UNCHANGED <<cls, coroKind, calls, warned>>

ContextManager_aenter == cls \in ObjClasses /\ Coro_aenter("_obj")

ContextManager_aenter_resume(o) == cls \in ObjClasses /\ Coro_aenter_resume("_obj", o)

\* _ContextManager.__aexit__: self._obj.close(); self._obj = None.
ContextManager_aexit(e) ==
  /\ CanCall /\ cls = CM
  /\ LET f == Begin("__aexit__", e)
     IN IF self._obj = None
          THEN Done(f, Raises(AttributeError), self) /\ UNCHANGED calls
          ELSE \E o \in SyncOutcomes :
                 /\ Call("close", self._obj)
                 /\ IF o = "ok"
                      THEN Done(f, Returned(None), [self EXCEPT !._obj = None])
                      ELSE Done(f, Raises(Raised("close", o)), self)
  /\ UNCHANGED <<cls, coroKind, coro, is_active, warned>>

----------------------------------------------------------------------------
(* _PoolContextManager.__aexit__ *)

\* Mutant: the handle is cleared before wait_closed() is waited for.
PoolContextManager_aexit_clear_early(e) ==
  /\ CanCall /\ cls = PCM
  /\ LET f == Begin("__aexit__", e)
     IN IF self._obj = None
          THEN Done(f, Raises(AttributeError), self) /\ UNCHANGED calls
          ELSE \E o \in SyncOutcomes :
                 IF o = "ok"
                   THEN /\ Calls(<< <<"close", self._obj>>, <<"wait_closed", self._obj>> >>)
                        /\ Suspend(f, "wait_closed", [self EXCEPT !._obj = None])
                   ELSE /\ Call("close", self._obj)
                        /\ Done(f, Raises(Raised("close", o)), self)
  /\ UNCHANGED <<cls, coroKind, coro, is_active, warned>>

\* self._obj.close(); yield from self._obj.wait_closed() -- up to the suspension.
PoolContextManager_aexit(e) ==
  /\ CanCall /\ cls = PCM
  /\ LET f == Begin("__aexit__", e)
     IN IF self._obj = None
          THEN Done(f, Raises(AttributeError), self) /\ UNCHANGED calls
          ELSE \E o \in SyncOutcomes :
                 IF o = "ok"
                   THEN /\ Calls(<< <<"close", self._obj>>, <<"wait_closed", self._obj>> >>)
                        /\ Suspend(f, "wait_closed", self)
                   ELSE /\ Call("close", self._obj)
                        /\ Done(f, Raises(Raised("close", o)), self)
  /\ UNCHANGED <<cls, coroKind, coro, is_active, warned>>

\* ... wait_closed() ends with outcome o; then self._obj = None.
PoolContextManager_aexit_resume(o) ==
  /\ pc = "wait_closed" /\ cls = PCM
  /\ IF o = "ok"
       THEN Done(frame, Returned(None), [self EXCEPT !._obj = None])
       ELSE Done(frame, Raises(Raised("wait_closed", o)), self)
  /\ UNCHANGED <<cls, coroKind, coro, is_active, calls, warned>>

----------------------------------------------------------------------------
(* _TransactionContextManager.__aexit__ *)

\* Mutant: is_active is tested before exc_type, so that a transaction that is
\* no longer active is not rolled back.
TransactionTeardown_active_first(e, active) ==
  IF active THEN (IF e THEN "rollback" ELSE "commit") ELSE "none"

\* Mutant: without exc_type, commit() is called whatever is_active says.
TransactionTeardown_always_commit(e, active) ==
  IF e THEN "rollback" ELSE "commit"

\* The call __aexit__ makes on the transaction: `if exc_type: rollback()
\* else: if self._obj.is_active: commit()`.
TransactionTeardown(e, active) ==
  IF e THEN "rollback" ELSE IF active THEN "commit" ELSE "none"

\* Up to the suspension on rollback() or commit(); with neither, to the end.
TransactionContextManager_aexit(e) ==
  /\ CanCall /\ cls = TCM
  /\ LET f == Begin("__aexit__", e)
         t == TransactionTeardown(e, is_active)
     IN IF self._obj = None
          THEN Done(f, Raises(AttributeError), self) /\ UNCHANGED calls
          ELSE IF t = "none"
                 THEN Done(f, Returned(None), [self EXCEPT !._obj = None])
                      /\ UNCHANGED calls
                 ELSE Call(t, self._obj) /\ Suspend(f, t, self)
  /\ UNCHANGED <<cls, coroKind, coro, is_active, warned>>

\* ... rollback() / commit() ends with outcome o; then self._obj = None.
TransactionContextManager_aexit_resume(o) ==
  /\ pc \in {"rollback", "commit"} /\ cls = TCM
  /\ IF o = "ok"
       THEN /\ Done(frame, Returned(None), [self EXCEPT !._obj = None])
            /\ is_active' = FALSE
       ELSE /\ Done(frame, Raises(Raised(pc, o)), self)
            /\ UNCHANGED is_active
  /\ UNCHANGED <<cls, coroKind, coro, calls, warned>>

\* The guarded block commits or rolls back the transaction itself.
Block_resolves_transaction ==
  /\ pc = "idle" /\ cls = TCM /\ is_active
  /\ is_active' = FALSE
  /\ UNCHANGED <<cls, coroKind, self, coro, pc, frame, calls, result, hist, warned>>
  /\ UNCHANGED pvars

----------------------------------------------------------------------------
(* _PoolAcquireContextManager: __aenter__, __aexit__ *)

PoolAcquireContextManager_aenter == cls = PACM /\ Coro_aenter("_conn")

PoolAcquireContextManager_aenter_resume(o) == cls = PACM /\ Coro_aenter_resume("_conn", o)

\* yield from self._pool.release(self._conn) -- up to the suspension.
PoolAcquireContextManager_aexit(e) ==
  /\ CanCall /\ cls = PACM
  /\ LET f == Begin("__aexit__", e)
     IN IF self._pool = None
          THEN Done(f, Raises(AttributeError), self) /\ UNCHANGED calls
          ELSE Call("release", self._conn) /\ Suspend(f, "release", self)
  /\ UNCHANGED <<cls, coroKind, coro, is_active, warned>>

\* ... release ends with outcome o; then self._pool = None; self._conn = None.
PoolAcquireContextManager_aexit_resume(o) ==
  /\ pc = "release" /\ cls = PACM
  /\ IF o = "ok"
       THEN Done(frame, Returned(None), [self EXCEPT !._pool = None, !._conn = None])
       ELSE Done(frame, Raises(Raised("release", o)), self)
  /\ UNCHANGED <<cls, coroKind, coro, is_active, calls, warned>>

----------------------------------------------------------------------------
(* _PoolConnectionContextManager: __enter__, __exit__, __aenter__, __aexit__ *)

\* assert self._conn; return self._conn
PoolConnectionContextManager_enter ==
  /\ CanCall /\ cls = PCCM
  /\ LET f == Begin("__enter__", FALSE)
     IN IF self._conn = None
          THEN Done(f, Raises(AssertionError), self)
          ELSE Done(f, Returned(self._conn), self)
  /\ UNCHANGED <<cls, coroKind, coro, is_active, calls, warned>>

\* Mutant of __exit__: the release is skipped when exc_type is set.
PoolConnectionContextManager_exit_no_release_on_failure(e) ==
  /\ CanCall /\ cls = PCCM
  /\ LET f == Begin("__exit__", e)
         cleared == [self EXCEPT !._pool = None, !._conn = None]
     IN IF self._pool = None
          THEN Done(f, Raises(AttributeError), cleared) /\ UNCHANGED calls
          ELSE IF e
                 THEN Done(f, Returned(None), cleared) /\ UNCHANGED calls
                 ELSE \E o \in SyncOutcomes :
                        /\ Call("release", self._conn)
                        /\ IF o = "ok"
                             THEN Done(f, Returned(None), cleared)
                             ELSE Done(f, Raises(Raised("release", o)), cleared)
  /\ UNCHANGED <<cls, coroKind, coro, is_active, warned>>

\* try: self._pool.release(self._conn)  finally: clear _pool and _conn.
PoolConnectionContextManager_exit(e) ==
  /\ CanCall /\ cls = PCCM
  /\ LET f == Begin("__exit__", e)
         cleared == [self EXCEPT !._pool = None, !._conn = None]
     IN IF self._pool = None
          THEN Done(f, Raises(AttributeError), cleared) /\ UNCHANGED calls
          ELSE \E o \in SyncOutcomes :
                 /\ Call("release", self._conn)
                 /\ IF o = "ok"
                      THEN Done(f, Returned(None), cleared)
                      ELSE Done(f, Raises(Raised("release", o)), cleared)
  /\ UNCHANGED <<cls, coroKind, coro, is_active, warned>>

\* assert not self._conn; self._conn = yield from self._pool.acquire()
PoolConnectionContextManager_aenter ==
  /\ CanCall /\ cls = PCCM
  /\ LET f == Begin("__aenter__", FALSE)
     IN IF self._conn # None
          THEN Done(f, Raises(AssertionError), self) /\ UNCHANGED calls
          ELSE IF self._pool = None
                 THEN Done(f, Raises(AttributeError), self) /\ UNCHANGED calls
                 ELSE Call("acquire", self._pool) /\ Suspend(f, "acquire", self)
  /\ UNCHANGED <<cls, coroKind, coro, is_active, warned>>

\* ... acquire() ends with outcome o; store and return self._conn.
PoolConnectionContextManager_aenter_resume(o) ==
  /\ pc = "acquire" /\ cls = PCCM
  /\ IF o = "ok"
       THEN Done(frame, Returned(Resource(cls)), [self EXCEPT !._conn = Resource(cls)])
       ELSE Done(frame, Raises(Raised("acquire", o)), self)
  /\ UNCHANGED <<cls, coroKind, coro, is_active, calls, warned>>

\* try: yield from self._pool.release(self._conn) -- up to the suspension.
PoolConnectionContextManager_aexit(e) ==
  /\ CanCall /\ cls = PCCM
  /\ LET f == Begin("__aexit__", e)
         cleared == [self EXCEPT !._pool = None, !._conn = None]
     IN IF self._pool = None
          THEN Done(f, Raises(AttributeError), cleared) /\ UNCHANGED calls
          ELSE Call("release", self._conn) /\ Suspend(f, "release", self)
  /\ UNCHANGED <<cls, coroKind, coro, is_active, warned>>

\* ... release ends with outcome o; finally: clear _pool and _conn.
PoolConnectionContextManager_aexit_resume(o) ==
  /\ pc = "release" /\ cls = PCCM
  /\ LET cleared == [self EXCEPT !._pool = None, !._conn = None]
     IN IF o = "ok"
          THEN Done(frame, Returned(None), cleared)
          ELSE Done(frame, Raises(Raised("release", o)), cleared)
  /\ UNCHANGED <<cls, coroKind, coro, is_active, calls, warned>>

----------------------------------------------------------------------------
(* _PoolCursorContextManager *)

\* __enter__: return self._cur
PoolCursorContextManager_enter ==
  /\ CanCall /\ cls = CUR
  /\ Done(Begin("__enter__", FALSE), Returned(self._cur), self)
  /\ UNCHANGED <<cls, coroKind, coro, is_active, calls, warned>>

\* Mutant of __exit__: the connection is released before the cursor is closed.
PoolCursorContextManager_exit_release_first(e, oc, or) ==
  /\ CanCall /\ cls = CUR
  /\ LET f == Begin("__exit__", e)
         cleared == [self EXCEPT !._conn = None, !._cur = None]
         close == <<"close", self._cur>>
         release == <<"release", self._conn>>
     IN CASE self._pool = None ->
               Done(f, Raises(AttributeError), cleared) /\ UNCHANGED calls
          [] self._pool # None /\ or # "ok" ->
               Calls(<<release>>) /\ Done(f, Raises(Raised("release", or)), cleared)
          [] self._pool # None /\ or = "ok" /\ self._cur = None ->
               Calls(<<release>>) /\ Done(f, Raises(AttributeError), cleared)
          [] self._pool # None /\ or = "ok" /\ self._cur # None /\ oc # "ok" ->
               Calls(<<release, close>>) /\ Done(f, Raises(Raised("close", oc)), cleared)
          [] self._pool # None /\ or = "ok" /\ self._cur # None /\ oc = "ok" ->
               Calls(<<release, close>>) /\ Done(f, Returned(None), cleared)
  /\ UNCHANGED <<cls, coroKind, coro, is_active, warned>>

\* __exit__: try: self._cur.close(); self._pool.release(self._conn)
\* finally: self._conn = None; self._cur = None.  oc and or are the outcomes
\* of close() and of release().
PoolCursorContextManager_exit(e, oc, or) ==
  /\ CanCall /\ cls = CUR
  /\ LET f == Begin("__exit__", e)
         cleared == [self EXCEPT !._conn = None, !._cur = None]
         close == <<"close", self._cur>>
         release == <<"release", self._conn>>
     IN CASE self._cur = None ->
               Done(f, Raises(AttributeError), cleared) /\ UNCHANGED calls
          [] self._cur # None /\ oc # "ok" ->
               Calls(<<close>>) /\ Done(f, Raises(Raised("close", oc)), cleared)
          [] self._cur # None /\ oc = "ok" /\ self._pool = None ->
               Calls(<<close>>) /\ Done(f, Raises(AttributeError), cleared)
          [] self._cur # None /\ oc = "ok" /\ self._pool # None /\ or # "ok" ->
               Calls(<<close, release>>) /\ Done(f, Raises(Raised("release", or)), cleared)
          [] self._cur # None /\ oc = "ok" /\ self._pool # None /\ or = "ok" ->
               Calls(<<close, release>>) /\ Done(f, Returned(None), cleared)
  /\ UNCHANGED <<cls, coroKind, coro, is_active, warned>>

\* Mutant: __iter__ and __await__ of the cursor scope do not warn.
Warns_never(m) == 0

\* The warnings.warn(..., DeprecationWarning) of __iter__ and __await__.
Warns(m) == IF m \in {"__iter__", "__await__"} THEN 1 ELSE 0

\* _init, entered directly or through __iter__, __await__ or __aenter__ (m):
\* assert not self._conn and not self._cur; then `yield from
\* self._conn_cur_co`, up to the coroutine's first suspension.
PoolCursorContextManager_init(m) ==
  /\ CanCall /\ cls = CUR
  /\ warned' = warned + Warns(m)
  /\ LET f == Begin(m, FALSE)
         r == CoroResume(coro, coroKind)
     IN IF self._conn # None \/ self._cur # None
          THEN Done(f, Raises(AssertionError), self) /\ UNCHANGED <<coro, calls>>
          ELSE CASE r = "start" ->
                      /\ coro' = "running"
                      /\ Call("acquire", "_conn_cur_co")
                      /\ Suspend(f, "acquire", self)
                 [] r = "none" ->
                      /\ Done(f, Raises(TypeError), self)
                      /\ UNCHANGED <<coro, calls>>
                 [] r = "RuntimeError" ->
                      /\ Done(f, Raises(RuntimeError), self)
                      /\ UNCHANGED <<coro, calls>>
  /\ UNCHANGED <<cls, coroKind, is_active>>

\* ... the coroutine ends with outcome o: self._conn, self._cur = its pair.
\* _init returns self; __aenter__ goes on to `yield from
\* self._conn.__aenter__()`.
PoolCursorContextManager_init_resume(o) ==
  /\ pc = "acquire" /\ cls = CUR
  /\ coro' = "done"
  /\ LET s == [self EXCEPT !._conn = "conn", !._cur = "cur"]
     IN CASE o # "ok" ->
               Done(frame, Raises(Raised("acquire", o)), self) /\ UNCHANGED calls
          [] o = "ok" /\ frame.m # "__aenter__" ->
               Done(frame, Returned("self"), s) /\ UNCHANGED calls
          [] o = "ok" /\ frame.m = "__aenter__" ->
               Call("conn.__aenter__", "conn") /\ Suspend(frame, "conn.__aenter__", s)
  /\ UNCHANGED <<cls, coroKind, is_active, warned>>

\* __aenter__ after conn.__aenter__(): yield from self._cur.__aenter__().
PoolCursorContextManager_aenter_conn(o) ==
  /\ pc = "conn.__aenter__" /\ cls = CUR
  /\ IF o = "ok"
       THEN Call("cur.__aenter__", self._cur) /\ Suspend(frame, "cur.__aenter__", self)
       ELSE Done(frame, Raises(Raised("conn.__aenter__", o)), self) /\ UNCHANGED calls
  /\ UNCHANGED <<cls, coroKind, coro, is_active, warned>>

\* __aenter__ after cur.__aenter__(): return self._cur.
PoolCursorContextManager_aenter_cur(o) ==
  /\ pc = "cur.__aenter__" /\ cls = CUR
  /\ IF o = "ok"
       THEN Done(frame, Returned(self._cur), self)
       ELSE Done(frame, Raises(Raised("cur.__aenter__", o)), self)
  /\ UNCHANGED <<cls, coroKind, coro, is_active, calls, warned>>

\* The finally clause of __aexit__, entered with exception p pending and the
\* fields s: `yield from conn.__aexit__(...)`, up to the suspension.  conn is
\* the local read from self._conn when __aexit__ began.
PoolCursor_aexit_finally(f, p, s) ==
  LET conn == f.pre._conn
  IN IF conn = None
       THEN Done(f, RaisedWith(AttributeError, p), s) /\ UNCHANGED calls
       ELSE /\ Call("conn.__aexit__", conn)
            /\ Suspend([f EXCEPT !.pending = p], "conn.__aexit__", s)

\* __aexit__: conn = self._conn; cur = self._cur; self._pool = None;
\* try: yield from cur.__aexit__(...) -- up to the suspension.
PoolCursorContextManager_aexit(e) ==
  /\ CanCall /\ cls = CUR
  /\ LET f == Begin("__aexit__", e)
         s == [self EXCEPT !._pool = None]
     IN IF self._cur = None
          THEN PoolCursor_aexit_finally(f, AttributeError, s)
          ELSE Call("cur.__aexit__", self._cur) /\ Suspend(f, "cur.__aexit__", s)
  /\ UNCHANGED <<cls, coroKind, coro, is_active, warned>>

\* ... cur.__aexit__ ends with outcome o: self._cur = None when it returned;
\* then the finally clause.
PoolCursorContextManager_aexit_cur(o) ==
  /\ pc = "cur.__aexit__" /\ cls = CUR
  /\ IF o = "ok"
       THEN PoolCursor_aexit_finally(frame, NoExc, [self EXCEPT !._cur = None])
       ELSE PoolCursor_aexit_finally(frame, Raised("cur.__aexit__", o), self)
  /\ UNCHANGED <<cls, coroKind, coro, is_active, warned>>

\* Mutant: when conn.__aexit__ raises inside the finally clause while the
\* exception of cur.__aexit__ is pending, the pending one goes on propagating
\* and the new one is attached to it.
PoolCursorContextManager_aexit_conn_keeps_first(o) ==
  /\ pc = "conn.__aexit__" /\ cls = CUR
  /\ LET s == [self EXCEPT !._conn = None]
         r == Raised("conn.__aexit__", o)
     IN CASE o # "ok" /\ frame.pending = NoExc ->
               Done([frame EXCEPT !.fin = r], Raises(r), self)
          [] o # "ok" /\ frame.pending # NoExc ->
               Done([frame EXCEPT !.fin = r], RaisedWith(frame.pending, r), self)
          [] o = "ok" /\ frame.pending = NoExc ->
               Done(frame, Returned(None), s)
          [] o = "ok" /\ frame.pending # NoExc ->
               Done(frame, Raises(frame.pending), s)
  /\ UNCHANGED <<cls, coroKind, coro, is_active, calls, warned>>

\* Mutant: __aexit__ ends with `return True` once both steps have run.
PoolCursorContextManager_aexit_conn_suppresses(o) ==
  /\ pc = "conn.__aexit__" /\ cls = CUR
  /\ LET s == [self EXCEPT !._conn = None]
         r == Raised("conn.__aexit__", o)
     IN CASE o # "ok" ->
               Done([frame EXCEPT !.fin = r], RaisedWith(r, frame.pending), self)
          [] o = "ok" /\ frame.pending = NoExc ->
               Done(frame, Returned("True"), s)
          [] o = "ok" /\ frame.pending # NoExc ->
               Done(frame, Raises(frame.pending), s)
  /\ UNCHANGED <<cls, coroKind, coro, is_active, calls, warned>>

\* ... conn.__aexit__ ends with outcome o: self._conn = None when it returned,
\* and the pending exception, if any, goes on propagating.
PoolCursorContextManager_aexit_conn(o) ==
  /\ pc = "conn.__aexit__" /\ cls = CUR
  /\ LET s == [self EXCEPT !._conn = None]
         r == Raised("conn.__aexit__", o)
     IN CASE o # "ok" ->
               Done([frame EXCEPT !.fin = r], RaisedWith(r, frame.pending), self)
          [] o = "ok" /\ frame.pending = NoExc ->
               Done(frame, Returned(None), s)
          [] o = "ok" /\ frame.pending # NoExc ->
               Done(frame, Raises(frame.pending), s)
  /\ UNCHANGED <<cls, coroKind, coro, is_active, calls, warned>>

----------------------------------------------------------------------------
Next ==
  \/ \E m \in {"__iter__", "__await__"} : ContextManager_await(m)
  \/ \E o \in AsyncOutcomes : ContextManager_await_resume(o)
  \/ ContextManager_aenter
  \/ \E o \in AsyncOutcomes : ContextManager_aenter_resume(o)
  \/ \E e \in BOOLEAN : ContextManager_aexit(e)
  \/ \E e \in BOOLEAN : PoolContextManager_aexit(e)
  \/ \E o \in AsyncOutcomes : PoolContextManager_aexit_resume(o)
  \/ \E e \in BOOLEAN : TransactionContextManager_aexit(e)
  \/ \E o \in AsyncOutcomes : TransactionContextManager_aexit_resume(o)
  \/ Block_resolves_transaction
  \/ PoolAcquireContextManager_aenter
  \/ \E o \in AsyncOutcomes : PoolAcquireContextManager_aenter_resume(o)
  \/ \E e \in BOOLEAN : PoolAcquireContextManager_aexit(e)
  \/ \E o \in AsyncOutcomes : PoolAcquireContextManager_aexit_resume(o)
  \/ PoolConnectionContextManager_enter
  \/ \E e \in BOOLEAN : PoolConnectionContextManager_exit(e)
  \/ PoolConnectionContextManager_aenter
  \/ \E o \in AsyncOutcomes : PoolConnectionContextManager_aenter_resume(o)
  \/ \E e \in BOOLEAN : PoolConnectionContextManager_aexit(e)
  \/ \E o \in AsyncOutcomes : PoolConnectionContextManager_aexit_resume(o)
  \/ PoolCursorContextManager_enter
  \/ \E e \in BOOLEAN, oc, or \in SyncOutcomes : PoolCursorContextManager_exit(e, oc, or)
  \/ \E m \in {"_init", "__iter__", "__await__", "__aenter__"} : PoolCursorContextManager_init(m)
  \/ \E o \in AsyncOutcomes : PoolCursorContextManager_init_resume(o)
  \/ \E o \in AsyncOutcomes : PoolCursorContextManager_aenter_conn(o)
  \/ \E o \in AsyncOutcomes : PoolCursorContextManager_aenter_cur(o)
  \/ \E e \in BOOLEAN : PoolCursorContextManager_aexit(e)
  \/ \E o \in AsyncOutcomes : PoolCursorContextManager_aexit_cur(o)
  \/ \E o \in AsyncOutcomes : PoolCursorContextManager_aexit_conn(o)

Spec == Init /\ [][Next]_vars

----------------------------------------------------------------------------
(* Several cooperative tasks sharing one pool.  Each task runs              *)
(*   async with <scope>:  <block>                                           *)
(* on its own _PoolAcquireContextManager or _PoolConnectionContextManager,  *)
(* and no collaborator call fails.  The pool is the collaborator the scopes *)
(* call: acquire() suspends while no connection is free; release(conn)      *)
(* hands conn back to the pool and then may suspend before it returns.      *)

Tasks == 1..NTasks
\* The pool's connections, by name.
ConnNames == <<"conn1", "conn2", "conn3", "conn4", "conn5", "conn6">>
Conns == {ConnNames[i] : i \in 1..NConns}

\* The scope of every task is new and nothing is checked out.  The variables
\* of the single scope above play no part here and stay as constructed.
PoolInit ==
  /\ tcls \in [Tasks -> {PACM, PCCM}]
  /\ tself = [t \in Tasks |-> Fields(None, None, None, "pool")]
  /\ tpc = [t \in Tasks |-> "start"]
  /\ free = Conns
  /\ cls = PACM /\ coroKind = "generator"
  /\ self = Fields(None, None, None, "pool")
  /\ calls = << >>
  /\ coro = "fresh" /\ is_active = FALSE /\ pc = "idle"
  /\ frame = Begin("__init__", FALSE)
  /\ result = Returned(None) /\ hist = << >> /\ warned = 0

\* __aenter__ of task t's scope, up to the suspension in the acquisition
\* (_PoolConnectionContextManager: assert not self._conn first).
Task_aenter(t) ==
  /\ tpc[t] = "start"
  /\ tcls[t] = PCCM => tself[t]._conn = None
  /\ tpc' = [tpc EXCEPT ![t] = "acquire"]
  /\ UNCHANGED <<tcls, tself, free>>
  /\ UNCHANGED svars

\* ... the acquisition returns a free connection c: self._conn = c.
Task_aenter_resume(t) ==
  /\ tpc[t] = "acquire"
  /\ \E c \in free :
       /\ free' = free \ {c}
       /\ tself' = [tself EXCEPT ![t]._conn = c]
  /\ tpc' = [tpc EXCEPT ![t] = "block"]
  /\ UNCHANGED tcls
  /\ UNCHANGED svars

\* self._pool = None; self._conn = None.
Task_clear(t) == [tself EXCEPT ![t]._pool = None, ![t]._conn = None]

\* Mutant: __aexit__ clears the fields without calling pool.release.
Task_aexit_without_release(t) ==
  /\ tpc[t] = "block"
  /\ free' = free
  /\ \/ tpc' = [tpc EXCEPT ![t] = "release"] /\ tself' = tself
     \/ tpc' = [tpc EXCEPT ![t] = "done"] /\ tself' = Task_clear(t)
  /\ UNCHANGED tcls
  /\ UNCHANGED svars

\* The block of task t ends and __aexit__ runs
\* `yield from self._pool.release(self._conn)`: release hands the connection
\* back; either it suspends there, or it returns at once and the fields are
\* cleared in the same step.
Task_aexit(t) ==
  /\ tpc[t] = "block"
  /\ free' = free \cup {tself[t]._conn}
  /\ \/ tpc' = [tpc EXCEPT ![t] = "release"] /\ tself' = tself
     \/ tpc' = [tpc EXCEPT ![t] = "done"] /\ tself' = Task_clear(t)
  /\ UNCHANGED tcls
  /\ UNCHANGED svars

\* ... release returns: self._pool = None; self._conn = None.
Task_aexit_resume(t) ==
  /\ tpc[t] = "release"
  /\ tself' = Task_clear(t)
  /\ tpc' = [tpc EXCEPT ![t] = "done"]
  /\ UNCHANGED <<tcls, free>>
  /\ UNCHANGED svars

TaskNext(t) ==
  \/ Task_aenter(t)
  \/ Task_aenter_resume(t)
  \/ Task_aexit(t)
  \/ Task_aexit_resume(t)

PoolNext == \E t \in Tasks : TaskNext(t)

SpecPool == PoolInit /\ [][PoolNext]_vars

\* The event loop runs every task that is ready to run.
SpecPoolFair ==
  PoolInit /\ [][PoolNext]_vars /\ \A t \in Tasks : WF_vars(TaskNext(t))

----------------------------------------------------------------------------
(* Properties *)

\* The collaborator calls of the running (or last) method invocation.
XCalls == SubSeq(calls, frame.start + 1, Len(calls))

ExitMethods == {"__exit__", "__aexit__"}
\* The method invocation has ended (returned or raised).
Ended == pc = "idle" /\ Len(hist) > 0
LastOp == hist[Len(hist)]

\* The cursor-close step and the connection-release step of a cursor scope.
IsCloseStep(c) == c[1] \in {"close", "cur.__aexit__"}
IsReleaseStep(c) == c[1] \in {"release", "conn.__aexit__"}

\* C1: for _PoolAcquireContextManager and _PoolConnectionContextManager, a
\* successful acquisition on a new scope (conn passed to the constructor, or
\* __aenter__ returning it) leaves the scope holding that connection and the
\* pool, and every exit (__exit__ / __aexit__, exc_type set or not) invoked on
\* a scope that holds them calls pool.release exactly once, with the
\* acquired connection.
C1_ReleaseOnceOnExit ==
  cls \in {PACM, PCCM} =>
    /\ (Len(hist) = 0 /\ pc = "idle" /\ calls = << <<"acquire", "caller">> >>)
         => (self._conn = "conn" /\ self._pool # None)
    /\ (Ended /\ Len(hist) = 1 /\ LastOp.m = "__aenter__" /\ LastOp.res.kind = "return")
         => (LastOp.res.val = "conn" /\ self._conn = "conn" /\ self._pool # None)
    /\ (frame.m \in ExitMethods /\ frame.pre._conn # None /\ frame.pre._pool # None)
         => XCalls = << <<"release", "conn">> >>

\* C1 witness: a scope built around an acquired connection has been left
\* through __exit__ on the failure path, with its single release made.
C1_Witness ==
  /\ cls = PCCM /\ Ended /\ Len(hist) = 1
  /\ frame.m = "__exit__" /\ frame.exc /\ frame.pre._conn = "conn"
  /\ result.kind = "return"
  /\ XCalls = << <<"release", "conn">> >>

\* C2: in a cursor scope the connection-release step (pool.release /
\* conn.__aexit__) is never invoked unless the cursor-close step (cur.close /
\* cur.__aexit__) was invoked before it, and within one exit no cursor-close
\* step follows a connection-release step.
C2_CloseBeforeRelease ==
  cls = CUR =>
    /\ \A j \in 1..Len(calls) :
         IsReleaseStep(calls[j]) => \E i \in 1..(j - 1) : IsCloseStep(calls[i])
    /\ \A i, j \in 1..Len(XCalls) :
         (IsReleaseStep(XCalls[i]) /\ IsCloseStep(XCalls[j])) => j < i

\* C2 witness: an exit on the failure path has closed the cursor and then
\* released the connection.
C2_Witness ==
  /\ cls = CUR /\ Ended /\ frame.m \in ExitMethods /\ frame.exc
  /\ Len(XCalls) = 2 /\ IsCloseStep(XCalls[1]) /\ IsReleaseStep(XCalls[2])

\* The cursor-close step of the last exit raised.
CloseRaised ==
  \/ result.exc.from \in {"close", "cur.__aexit__"}
  \/ result.ctx.from = "cur.__aexit__"

\* C3 (as claimed): when the cursor-close step of a cursor scope's exit raises,
\* the connection-release step has still been executed by the time exit ends.
C3_ReleaseDespiteCloseError ==
  (cls = CUR /\ Ended /\ frame.m \in ExitMethods /\ CloseRaised)
    => \E i \in 1..Len(XCalls) : IsReleaseStep(XCalls[i])

\* C4: _TransactionContextManager.__aexit__ on a scope that holds a
\* transaction: with exc_type falsy and is_active true it calls commit() once
\* and never rollback(); with exc_type truthy it calls rollback() once and
\* never commit(), whatever is_active is.
C4_CommitOrRollback ==
  (cls = TCM /\ frame.m = "__aexit__" /\ frame.pre._obj # None) =>
    /\ (~frame.exc /\ frame.active) => XCalls = << <<"commit", "tx">> >>
    /\ frame.exc => XCalls = << <<"rollback", "tx">> >>

\* C4 witness: an exit with a failure signalled, on a transaction that was no
\* longer active, has ended after its rollback.
C4_Witness ==
  /\ cls = TCM /\ Ended /\ frame.m = "__aexit__" /\ frame.pre._obj = "tx"
  /\ frame.exc /\ ~frame.active
  /\ XCalls = << <<"rollback", "tx">> >>
  /\ result.kind = "return"

\* C5 (as claimed): after _TransactionContextManager.__aexit__ ends on a scope
\* that held a transaction -- returning or raising -- _obj is None.
C5_HandleClearedOnEveryPath ==
  (cls = TCM /\ Ended /\ frame.m = "__aexit__" /\ frame.pre._obj # None)
    => self._obj = None

\* The method invocation before the running (or last) one.
HasPrevOp == Len(hist) >= (IF pc = "idle" THEN 2 ELSE 1)
PrevOp == IF pc = "idle" THEN hist[Len(hist) - 1] ELSE hist[Len(hist)]

\* C6 (as claimed): when pool.release raises during the exit of a
\* connection-checkout scope, _conn and _pool are cleared all the same, and the
\* next exit on that scope makes no release.
C6_ClearedDespiteReleaseError ==
  cls \in {PACM, PCCM} =>
    /\ (Ended /\ frame.m \in ExitMethods /\ frame.pre._conn = "conn"
          /\ result.exc.from = "release")
         => (self._conn = None /\ self._pool = None)
    /\ (frame.m \in ExitMethods /\ HasPrevOp /\ PrevOp.m \in ExitMethods
          /\ PrevOp.res.exc.from = "release"
          /\ frame.start > 0 /\ calls[frame.start] = <<"release", "conn">>)
         => XCalls = << >>

\* C7 (as claimed): after an enter that returned the resource and an exit that
\* returned, the next exit returns too, makes no collaborator call and leaves
\* every field as it was.
C7_SecondExitIsNoop ==
  (/\ Ended /\ Len(hist) >= 3
   /\ LastOp.m \in ExitMethods
   /\ hist[Len(hist) - 1].m \in ExitMethods
   /\ hist[Len(hist) - 1].res.kind = "return"
   /\ hist[Len(hist) - 2].m \in {"__enter__", "__aenter__"}
   /\ hist[Len(hist) - 2].res.kind = "return"
   /\ hist[Len(hist) - 2].res.val # None)
    => (result.kind = "return" /\ XCalls = << >> /\ self = frame.pre)

\* C8 (as claimed): when the acquisition of the scope's first enter raised, the
\* exit that follows makes no collaborator call -- no pool.release, not even
\* with a None connection.  (The claim adds that this exit returns without
\* raising.)
C8_ExitAfterFailedAcquireMakesNoCall ==
  (/\ frame.m \in ExitMethods
   /\ Len(hist) = (IF pc = "idle" THEN 2 ELSE 1)
   /\ hist[1].m = "__aenter__"
   /\ hist[1].res.exc.from = "acquire")
    => XCalls = << >>

\* The methods that trigger the acquisition.
Triggers == {"__iter__", "__await__", "_init", "__aenter__"}
\* Acquisitions started and not failed.
AcquireCalls == Cardinality({i \in 1..Len(calls) : calls[i][1] = "acquire"})
FailedAcquires == Cardinality({i \in 1..Len(hist) : hist[i].res.exc.from = "acquire"})

\* Method invocation i produced the resource.
Produced(i) == hist[i].res.kind = "return" /\ hist[i].res.val # None

\* C9 (as claimed): the acquisition is never performed twice; an __aenter__
\* that comes after a trigger that produced the resource (or on a scope
\* constructed around an acquired connection) raises, and so does an eager
\* trigger that comes after an __aenter__ that produced it.
C9_AcquisitionConsumedOnce ==
  /\ AcquireCalls - FailedAcquires <= 1
  /\ (/\ Ended /\ LastOp.m = "__aenter__"
      /\ \/ \E i \in 1..(Len(hist) - 1) : hist[i].m \in Triggers /\ Produced(i)
         \/ (cls = PCCM /\ calls[1] = <<"acquire", "caller">>))
       => result.kind = "raise"
  /\ (/\ Ended /\ LastOp.m \in Triggers
      /\ \E i \in 1..(Len(hist) - 1) : hist[i].m = "__aenter__" /\ Produced(i))
       => result.kind = "raise"

\* C10: _PoolContextManager.__aexit__ on a scope that holds the pool: close()
\* is called first and wait_closed() next; while wait_closed() is pending _obj
\* still refers to the pool; _obj is None only once wait_closed() has returned;
\* and no close() follows the start of wait_closed().
C10_CloseWaitThenClear ==
  (cls = PCM /\ frame.m = "__aexit__" /\ frame.pre._obj # None) =>
    /\ pc = "wait_closed" =>
         (self._obj = "pool" /\ XCalls = << <<"close", "pool">>, <<"wait_closed", "pool">> >>)
    /\ self._obj = None =>
         /\ Ended /\ result.kind = "return"
         /\ XCalls = << <<"close", "pool">>, <<"wait_closed", "pool">> >>
    /\ \A i, j \in 1..Len(XCalls) :
         (XCalls[i][1] = "wait_closed" /\ XCalls[j][1] = "close") => j < i
    /\ (\E i \in 1..Len(XCalls) : XCalls[i][1] = "wait_closed")
         => XCalls[1] = <<"close", "pool">>

\* C10 witness: the exit is suspended on wait_closed(), the handle still set.
C10_Witness ==
  /\ cls = PCM /\ pc = "wait_closed" /\ frame.m = "__aexit__"
  /\ self._obj = "pool"
  /\ XCalls = << <<"close", "pool">>, <<"wait_closed", "pool">> >>


\* C11 (as claimed): no two scopes of tasks sharing the pool hold a non-None
\* reference to the same connection, in any state -- the states in which an
\* __aexit__ is suspended in pool.release, after the connection went back to
\* the pool and before the scope cleared _conn, included.
C11_NoSharedConnection ==
  \A t, u \in Tasks :
    (t # u /\ tself[t]._conn # None) => tself[t]._conn # tself[u]._conn


\* C12 (as claimed): an __aenter__ that ends because the task was cancelled at
\* one of its suspension points leaves the scope with no handle set -- for
\* every class and every suspension point, those of the cursor scope after
\* _init (conn.__aenter__, cur.__aenter__) included.
C12_CancelledEnterLeavesNoHandle ==
  (Ended /\ LastOp.m = "__aenter__" /\ result.exc.type = "CancelledError")
    => (self._obj = None /\ self._conn = None /\ self._cur = None)


EagerTriggers == {"__iter__", "__await__"}

\* C13 (as claimed): an eager trigger of a generic scope that returned the
\* resource has also stored it in _obj.
C13_EagerTriggerStoresHandle ==
  (/\ cls \in ObjClasses /\ Ended /\ LastOp.m \in EagerTriggers
   /\ result.kind = "return" /\ result.val # None)
    => self._obj = result.val

\* C13 (amended): the eager trigger (__iter__ / __await__) of a scope built
\* on _ContextManager returns what the acquisition coroutine produced and
\* stores nothing: the fields are as they were before it; and an __aexit__
\* on a scope no __aenter__ of which produced the resource makes no call on
\* the resource.
C13_EagerTriggerReturnsWithoutStoring ==
  cls \in CoroClasses =>
    /\ (Ended /\ LastOp.m \in EagerTriggers) =>
         /\ self = frame.pre
         /\ (result.kind = "return" /\ XCalls # << >>) => result.val = Resource(cls)
    /\ (/\ frame.m = "__aexit__"
        /\ \A i \in 1..Len(hist) : hist[i].m = "__aenter__" => ~Produced(i))
         => \A i \in 1..Len(XCalls) : XCalls[i][2] # Resource(cls)

\* C13 witness: `await scope` returned the resource, and the __aexit__ that
\* followed found no handle and made no call.
C13_Witness ==
  /\ cls = CM /\ Ended /\ Len(hist) = 2
  /\ hist[1].m = "__await__" /\ hist[1].res.val = "resource"
  /\ frame.m = "__aexit__" /\ frame.pre._obj = None
  /\ XCalls = << >> /\ self._obj = None


\* C14: an exit (__exit__ / __aexit__ of any class) called with exc_type set
\* whose teardown steps all succeed returns None, a falsy value, so the
\* failure of the block is re-raised by the with statement; for the cursor
\* scope its calls were cursor close, then connection release, and _conn and
\* _cur end None.
C14_ExitDoesNotSuppressFailure ==
  (frame.m \in ExitMethods /\ frame.exc /\ Ended /\ result.kind = "return") =>
    /\ result.val = None
    /\ cls = CUR =>
         /\ Len(XCalls) = 2
         /\ IsCloseStep(XCalls[1]) /\ XCalls[1][2] = "cur"
         /\ IsReleaseStep(XCalls[2]) /\ XCalls[2][2] = "conn"
         /\ self._conn = None /\ self._cur = None

\* C14 witness: the cursor scope's __aexit__, called with exc_type set, has
\* closed the cursor, released the connection and returned None.
C14_Witness ==
  /\ cls = CUR /\ Ended /\ frame.m = "__aexit__" /\ frame.exc
  /\ result = Returned(None)
  /\ XCalls = << <<"cur.__aexit__", "cur">>, <<"conn.__aexit__", "conn">> >>
  /\ self._conn = None /\ self._cur = None


\* The cursor scope's __aexit__ has ended, and both cur.__aexit__ and, in the
\* finally clause, conn.__aexit__ raised.
BothStepsRaised ==
  /\ cls = CUR /\ Ended /\ frame.m = "__aexit__"
  /\ frame.pending.from = "cur.__aexit__"
  /\ frame.fin.from = "conn.__aexit__"

\* C15 (as claimed): when both steps raise, the exception that propagates is
\* the one of the cursor-close step, with the one of the connection-release
\* step attached to it.
C15_CursorErrorPropagates ==
  BothStepsRaised =>
    (result.kind = "raise" /\ result.exc = frame.pending /\ result.ctx = frame.fin)

\* C15 (amended): when both steps raise, the exception that propagates is the
\* one of the connection-release step, and the one of the cursor-close step
\* is not lost: it is the __context__ of the propagating exception.
C15_ReleaseErrorPropagatesChained ==
  BothStepsRaised =>
    (result.kind = "raise" /\ result.exc = frame.fin /\ result.ctx = frame.pending)

\* C15 witness: both steps raised and __aexit__ ended with the release
\* step's exception, the cursor's chained to it.
C15_Witness ==
  /\ BothStepsRaised
  /\ result.exc = Exc("Error", "conn.__aexit__")
  /\ result.ctx = Exc("Error", "cur.__aexit__")


\* C16: _TransactionContextManager.__aexit__ called without exc_type on a
\* scope that holds a transaction which is no longer active (the block
\* committed or rolled back itself) calls neither commit() nor rollback(): it
\* returns at once, its only effect is _obj = None, and is_active is as it was.
C16_InactiveTransactionUntouched ==
  (/\ cls = TCM /\ frame.m = "__aexit__" /\ ~frame.exc
   /\ frame.pre._obj # None /\ ~frame.active)
    => /\ Ended /\ result = Returned(None)
       /\ XCalls = << >>
       /\ self = [frame.pre EXCEPT !._obj = None]
       /\ is_active = frame.active

\* C16 witness: the block resolved the transaction itself, and the exit that
\* followed made no call and cleared the handle.
C16_Witness ==
  /\ cls = TCM /\ Ended /\ Len(hist) = 2
  /\ hist[1].m = "__aenter__" /\ hist[1].res.val = "tx"
  /\ frame.m = "__aexit__" /\ ~frame.exc /\ ~frame.active
  /\ frame.pre._obj = "tx" /\ self._obj = None
  /\ XCalls = << >>


\* C17 (as claimed): when the __aenter__ of a new cursor scope fails at any of
\* its steps (_init, conn.__aenter__, cur.__aenter__), _conn and _cur are
\* None afterwards.  (The claim adds that a following exit is a no-op.)
C17_FailedEnterLeavesNoHandle ==
  (/\ cls = CUR /\ Ended /\ Len(hist) = 1
   /\ LastOp.m = "__aenter__" /\ result.kind = "raise")
    => (self._conn = None /\ self._cur = None)


\* What a successful __aenter__ on a new scope of class c returns, and the
\* fields it leaves, starting from the fields pre.
AenterValue(c) == IF c = CUR THEN "cur" ELSE Resource(c)
AenterFields(c, pre) ==
  IF c = CUR THEN [pre EXCEPT !._conn = "conn", !._cur = "cur"]
             ELSE [pre EXCEPT !._obj = Resource(c)]

\* The first method called on a new scope has returned.
FirstReturned(ms) ==
  /\ Ended /\ Len(hist) = 1 /\ LastOp.m \in ms /\ result.kind = "return"

\* C18 (as claimed): on a generic scope and on a cursor scope, entering
\* through __iter__ / __await__ makes the one acquisition, leaves the fields
\* __aenter__ would leave, returns what __aenter__ would return, and emits a
\* DeprecationWarning.
C18_LazyEntryEquivalentToAenter ==
  (cls \in ObjClasses \cup {CUR} /\ FirstReturned(EagerTriggers)) =>
    /\ AcquireCalls = 1
    /\ self = AenterFields(cls, frame.pre)
    /\ result.val = AenterValue(cls)
    /\ warned = 1

\* C18 (amended): entering through __iter__ / __await__ makes the same single
\* acquisition as __aenter__ and is otherwise not the same: on a generic
\* scope it returns the resource __aenter__ would return, stores nothing and
\* emits no warning; on a cursor scope it leaves _conn and _cur set as
\* __aenter__ would and emits one DeprecationWarning, but returns the scope
\* itself and calls neither conn.__aenter__ nor cur.__aenter__.
C18_LazyEntryVersusAenter ==
  /\ (cls \in ObjClasses /\ FirstReturned({"__aenter__"})) =>
       /\ XCalls = << <<"acquire", "_coro">> >>
       /\ self = AenterFields(cls, frame.pre) /\ result.val = AenterValue(cls)
       /\ warned = 0
  /\ (cls \in ObjClasses /\ FirstReturned(EagerTriggers)) =>
       /\ XCalls = << <<"acquire", "_coro">> >>
       /\ self = frame.pre /\ result.val = AenterValue(cls)
       /\ warned = 0
  /\ (cls = CUR /\ FirstReturned({"__aenter__"})) =>
       /\ XCalls = << <<"acquire", "_conn_cur_co">>, <<"conn.__aenter__", "conn">>,
                      <<"cur.__aenter__", "cur">> >>
       /\ self = AenterFields(cls, frame.pre) /\ result.val = AenterValue(cls)
       /\ warned = 0
  /\ (cls = CUR /\ FirstReturned(EagerTriggers)) =>
       /\ XCalls = << <<"acquire", "_conn_cur_co">> >>
       /\ self = AenterFields(cls, frame.pre) /\ result.val = "self"
       /\ warned = 1

\* C18 witness: `yield from scope` on a new cursor scope has stored the
\* connection and the cursor, warned, and returned the scope.
C18_Witness ==
  /\ cls = CUR /\ FirstReturned({"__iter__"})
  /\ self._conn = "conn" /\ self._cur = "cur"
  /\ result.val = "self" /\ warned = 1

\* C19 (as claimed): whenever no method of a cursor scope is running, _conn
\* and _cur are both set or both None.
C19_ConnAndCurTogether ==
  (cls = CUR /\ pc = "idle") => ((self._conn = None) <=> (self._cur = None))

\* The __aenter__ of task t has returned (a task never goes back).
Entered(t) == tpc[t] \in {"block", "release", "done"}
\* Task t has left its scope: __aexit__ returned and the fields are cleared.
Finished(t) == tpc[t] = "done" /\ tself[t]._conn = None

\* C20: with more tasks than connections, every task that runs
\* `async with scope: block` on its checkout scope gets its connection
\* (eventually the __aenter__ of every task has returned), and in the end
\* every task has left its scope and every connection is back in the pool.
C20_EveryTaskFinishes ==
  /\ <>(\A t \in Tasks : Entered(t))
  /\ <>[]((\A t \in Tasks : Finished(t)) /\ free = Conns)

\* C20 witness: with fewer connections than tasks, every connection is
\* checked out by a task inside its block, and a task is suspended in the
\* acquisition of its __aenter__ with no connection free.
C20_Witness ==
  /\ NConns < NTasks /\ free = {}
  /\ \E t \in Tasks : tpc[t] = "acquire" /\ tself[t]._conn = None
  /\ \A c \in Conns : \E t \in Tasks : tpc[t] = "block" /\ tself[t]._conn = c

====
